---- MODULE Spec2Model ----
(***************************************************************************)
(* Hotel guest client: the Chatbot component (room service, booking with   *)
(* availability lookup, Book & Pay) and the standalone PaymentPage.        *)
(*                                                                         *)
(* Every React state cell is a variable.  An async handler is cut at each  *)
(* await: the part before the await is one action, each continuation is    *)
(* one action taking the response as its input.  Closure values captured   *)
(* by a handler travel with the in-flight call.  The backend and the       *)
(* checkout widget are the environment: they choose the outcome of every   *)
(* call.  The checkout widget is a modal overlay: while one is open the    *)
(* page below takes no user input, but responses still arrive.             *)
(***************************************************************************)
EXTENDS Integers, FiniteSets, Sequences, TLC

\* ---- bounds ----
MaxStarts == 2          \* chat messages, requests, availability queries, Book & Pay
                        \* flows and Create Order calls started in one session, together
MaxBookingIds == 2      \* distinct booking ids the PaymentPage user may type
MaxAmount == 150        \* order amounts 0..MaxAmount (minor units) are rendered

\* ---- value domains ----
NULL == 0                                 \* availability: no snapshot
NoSection == "none"                       \* section: null, the main menu
NoSummary == [orderId |-> 0, status |-> "none"]   \* paySummary: null
NoOrder   == [id |-> 0]                   \* PaymentPage order: null
Emails    == {"", "guest@x.com"}
CheckIns  == {"", "2024-06-01"}
CheckOuts == {"", "2024-06-03"}
RoomTypes == {"Deluxe", "Suite"}          \* options the user picks; "Standard" behaves as "Suite"
Texts     == {"", "x"}
Details   == {"", "server detail"}       \* err.response.data.detail, "" when absent
Sections  == {"faq", "request", "booking", "faqList"}
ChatInputs == {"", "hi"}                  \* chat input contents the user types

\* chat log entries; re names the POST /chat/ call a user message was sent
\* with or a bot message answers (0 for the greeting)
Greeting == [from |-> "bot", text |-> "How can I help you today?", re |-> 0]

VARIABLES
    route,              \* "/" (Chatbot) or "/payment" (PaymentPage)
    loading, ping,      \* readiness gate and the GET /chat/ping call
    section,
    roomNumber, phoneNumber, requestText, requestSuccess, isRequestLoading,
    email, roomType, checkIn, checkOut,
    bookingSuccess, availability, paySummary,
    isBookingLoading, isCheckingLoading,
    razorpay,           \* window.Razorpay is defined
    bookFlows,          \* handleBookingSubmit invocations, by start order
    checks, nChecks,    \* availability queries in flight / started
    requests, nRequests,\* POST /request/ calls in flight / started
    widgets,            \* open checkout widgets
    verifies,           \* POST /booking/payment/verify calls in flight
    bookingId, creating, order, keyId, sdkReady,   \* PaymentPage state
    sdkLoad,            \* PaymentPage's loadRazorpay() promise
    creates, nCreates,  \* PaymentPage create-order calls in flight / started
    orderFor,           \* backend: order id -> booking id it was created for
    verified,           \* backend: order ids whose verify call succeeded
    paidOrders,         \* order ids whose widget reported a successful payment
    dismissed,          \* order ids whose widget the user dismissed
    lastOkCheck,        \* latest-started availability query that succeeded
    lastOp, alertMsg,   \* the event just handled and the alert it raised
    chatMessages, currentInput,   \* chat panel state
    chats, nChats,      \* POST /chat/ calls in flight / started
    amount, currency,   \* amount and currency of the order being rendered
    shown               \* the amount line as rendered

gateVars == <<loading, ping>>
rsForm   == <<roomNumber, phoneNumber, requestText>>
rsVars   == <<rsForm, requestSuccess, isRequestLoading, requests, nRequests>>
bkForm   == <<email, roomType, checkIn, checkOut>>
ckVars   == <<checks, nChecks, lastOkCheck>>
bkVars   == <<bkForm, bookingSuccess, availability, paySummary,
              isBookingLoading, isCheckingLoading, bookFlows, ckVars>>
payVars  == <<bookingId, creating, order, keyId, sdkReady, sdkLoad, creates, nCreates>>
wVars    == <<widgets, verifies, paidOrders, dismissed>>
envVars  == <<razorpay, orderFor, verified>>
chatVars == <<chatMessages, currentInput, chats, nChats>>
fmtVars  == <<amount, currency, shown>>
vars == <<route, gateVars, section, rsVars, bkVars, payVars, wVars, envVars,
          lastOp, alertMsg, chatVars, fmtVars>>

\* ---- helpers modelling the code's conditions ----

\* variant: the validation looks at the email only
BookingFormValid_EmailOnly(e, ci, co) == e # ""

\* !email || !checkIn || !checkOut is false
BookingFormValid(e, ci, co) == e # "" /\ ci # "" /\ co # ""

\* variant: the response is not checked for an id
HasBookingId_Unchecked(b) == TRUE

\* booking?.id is truthy (0 stands for a response without id)
HasBookingId(b) == b # 0

\* err?.response?.data?.detail || err?.message || "Booking/payment failed."
BookingAlertText(detail, message) ==
    IF detail # "" THEN detail
    ELSE IF message # "" THEN message
    ELSE "Booking/payment failed."

\* paySummary.status === "paid" ? "Paid" : "Payment Pending"
DisplayStatus(ps) == IF ps.status = "paid" THEN "paid" ELSE "pending"

\* prev => (prev ? { ...prev, status: "paid" } : prev)
MarkPaid(prev) == IF prev # NoSummary THEN [prev EXCEPT !.status = "paid"] ELSE prev

IdleFlow == [pc |-> "idle", booking |-> 0, order |-> 0]

InFlightPc == {"booking", "order", "sdk"}
BookingsInFlight == {f \in DOMAIN bookFlows : bookFlows[f].pc \in InFlightPc}

StartedBookings == {f \in DOMAIN bookFlows : bookFlows[f].pc # "idle"}

\* handler invocations of the session that reached their network call
Started == nRequests + nChecks + Cardinality(StartedBookings) + nCreates + nChats

\* variant: the panels are rendered while the probe is still pending
ChatbotUI_Ungated == route = "/" /\ widgets = {}

\* the page accepts user input: Chatbot is rendered past the loading gate
\* and no checkout overlay covers it
ChatbotUI == route = "/" /\ ~loading /\ widgets = {}

\* the state cells after the first render and the calls the effects started
InitProgram ==
    /\ route \in {"/", "/payment"}
    /\ loading = TRUE
    /\ ping = IF route = "/" THEN "inflight" ELSE "none"
    /\ section = NoSection
    /\ roomNumber = "" /\ phoneNumber = "" /\ requestText = ""
    /\ requestSuccess = FALSE /\ isRequestLoading = FALSE
    /\ email = "" /\ roomType = "Deluxe" /\ checkIn = "" /\ checkOut = ""
    /\ bookingSuccess = "" /\ availability = NULL /\ paySummary = NoSummary
    /\ isBookingLoading = FALSE /\ isCheckingLoading = FALSE
    /\ razorpay = FALSE
    /\ bookFlows = [f \in 1..MaxStarts |-> IdleFlow]
    /\ checks = {} /\ nChecks = 0
    /\ requests = {} /\ nRequests = 0
    /\ widgets = {} /\ verifies = {}
    /\ bookingId = 0 /\ creating = FALSE /\ order = NoOrder /\ keyId = ""
    /\ sdkReady = FALSE
    /\ sdkLoad = IF route = "/payment" THEN "loading" ELSE "none"
    /\ creates = {} /\ nCreates = 0
    /\ orderFor = [o \in {} |-> 0]
    /\ verified = {} /\ paidOrders = {} /\ dismissed = {}
    /\ lastOkCheck = 0
    /\ lastOp = "init" /\ alertMsg = ""
    /\ chatMessages = <<Greeting>> /\ currentInput = ""
    /\ chats = {} /\ nChats = 0

\* the session model carries no amounts: nothing is rendered from them
Init ==
    /\ InitProgram
    /\ amount = 0 /\ currency = "INR" /\ shown = <<>>

\* ---- readiness probe ----

PingOk ==
    /\ route = "/" /\ ping = "inflight"
    /\ ping' = "ok" /\ loading' = FALSE
    /\ lastOp' = "PingOk" /\ alertMsg' = ""
    /\ UNCHANGED <<route, chatVars, fmtVars, section, rsVars, bkVars, payVars, wVars, envVars>>

PingFail ==
    /\ route = "/" /\ ping = "inflight"
    /\ ping' = "failed"
    /\ lastOp' = "PingFail" /\ alertMsg' = ""
    /\ UNCHANGED <<route, chatVars, fmtVars, loading, section, rsVars, bkVars, payVars, wVars, envVars>>

\* setTimeout(() => window.location.reload(), 3000): the page starts over
ReloadAfterTimeout ==
    /\ route = "/" /\ ping = "failed"
    /\ ping' = "inflight"
    /\ lastOp' = "Reload" /\ alertMsg' = ""
    /\ UNCHANGED <<route, chatVars, fmtVars, loading, section, rsVars, bkVars, payVars, wVars, envVars>>

\* ---- menu and navigation ----

\* the four menu buttons, rendered while !section
OpenSection(s) ==
    /\ ChatbotUI /\ section = NoSection
    /\ section' = s
    /\ lastOp' = "" /\ alertMsg' = ""
    /\ UNCHANGED <<route, chatVars, fmtVars, gateVars, rsVars, bkVars, payVars, wVars, envVars>>

\* Back in the chat and FAQ panels: setSection(null) only
BackToMenu ==
    /\ ChatbotUI /\ section \in {"faq", "faqList"}
    /\ section' = NoSection
    /\ lastOp' = "" /\ alertMsg' = ""
    /\ UNCHANGED <<route, chatVars, fmtVars, gateVars, rsVars, bkVars, payVars, wVars, envVars>>

\* variant: Back also starts the chat log over
goHome_ClearsChat ==
    /\ ChatbotUI /\ section \in {"request", "booking"}
    /\ email' = "" /\ roomType' = "Deluxe" /\ checkIn' = "" /\ checkOut' = ""
    /\ availability' = NULL
    /\ paySummary' = NoSummary
    /\ bookingSuccess' = ""
    /\ isBookingLoading' = FALSE
    /\ isCheckingLoading' = FALSE
    /\ roomNumber' = "" /\ phoneNumber' = "" /\ requestText' = ""
    /\ isRequestLoading' = FALSE
    /\ requestSuccess' = FALSE
    /\ section' = NoSection
    /\ chatMessages' = <<Greeting>>
    /\ lastOp' = "goHome" /\ alertMsg' = ""
    /\ UNCHANGED <<route, currentInput, chats, nChats, fmtVars, gateVars, requests,
                   nRequests, bookFlows, ckVars, payVars, wVars, envVars>>

\* Back in the room-service and booking panels
goHome ==
    /\ ChatbotUI /\ section \in {"request", "booking"}
    /\ email' = "" /\ roomType' = "Deluxe" /\ checkIn' = "" /\ checkOut' = ""
    /\ availability' = NULL
    /\ paySummary' = NoSummary
    /\ bookingSuccess' = ""
    /\ isBookingLoading' = FALSE
    /\ isCheckingLoading' = FALSE
    /\ roomNumber' = "" /\ phoneNumber' = "" /\ requestText' = ""
    /\ isRequestLoading' = FALSE
    /\ requestSuccess' = FALSE
    /\ section' = NoSection
    /\ lastOp' = "goHome" /\ alertMsg' = ""
    /\ UNCHANGED <<route, chatVars, fmtVars, gateVars, requests, nRequests, bookFlows, ckVars,
                   payVars, wVars, envVars>>

\* ---- room service panel ----

\* !roomNumber || !phoneNumber || !requestText is false
RequestFormValid(rn, pn, rt) == rn # "" /\ pn # "" /\ rt # ""

SetRoomNumber(v) ==
    /\ ChatbotUI /\ section = "request" /\ v # roomNumber
    /\ roomNumber' = v
    /\ lastOp' = "" /\ alertMsg' = ""
    /\ UNCHANGED <<route, chatVars, fmtVars, gateVars, section, phoneNumber, requestText,
                   requestSuccess, isRequestLoading, requests, nRequests,
                   bkVars, payVars, wVars, envVars>>

SetPhoneNumber(v) ==
    /\ ChatbotUI /\ section = "request" /\ v # phoneNumber
    /\ phoneNumber' = v
    /\ lastOp' = "" /\ alertMsg' = ""
    /\ UNCHANGED <<route, chatVars, fmtVars, gateVars, section, roomNumber, requestText,
                   requestSuccess, isRequestLoading, requests, nRequests,
                   bkVars, payVars, wVars, envVars>>

SetRequestText(v) ==
    /\ ChatbotUI /\ section = "request" /\ v # requestText
    /\ requestText' = v
    /\ lastOp' = "" /\ alertMsg' = ""
    /\ UNCHANGED <<route, chatVars, fmtVars, gateVars, section, roomNumber, phoneNumber,
                   requestSuccess, isRequestLoading, requests, nRequests,
                   bkVars, payVars, wVars, envVars>>

\* Send Request (disabled while isRequestLoading), up to the await
handleRequestSubmit ==
    /\ ChatbotUI /\ section = "request" /\ ~isRequestLoading
    /\ lastOp' = "handleRequestSubmit"
    /\ IF ~RequestFormValid(roomNumber, phoneNumber, requestText)
       THEN /\ alertMsg' = "Please fill all fields."
            /\ UNCHANGED <<isRequestLoading, requests, nRequests>>
       ELSE /\ Started < MaxStarts
            /\ isRequestLoading' = TRUE
            /\ nRequests' = nRequests + 1
            /\ requests' = requests \cup {nRequests + 1}
            /\ alertMsg' = ""
    /\ UNCHANGED <<route, chatVars, fmtVars, gateVars, section, rsForm, requestSuccess,
                   bkVars, payVars, wVars, envVars>>

\* POST /request/ resolved: the rest of the try block, then finally
RequestOk(r) ==
    /\ r \in requests
    /\ requests' = requests \ {r}
    /\ requestSuccess' = TRUE
    /\ roomNumber' = "" /\ phoneNumber' = "" /\ requestText' = ""
    /\ isRequestLoading' = FALSE
    /\ lastOp' = "RequestOk" /\ alertMsg' = ""
    /\ UNCHANGED <<route, chatVars, fmtVars, gateVars, section, nRequests, bkVars, payVars,
                   wVars, envVars>>

\* variant: the flag is reset after the try block instead of in finally
RequestFail_NoFinally(r) ==
    /\ r \in requests
    /\ requests' = requests \ {r}
    /\ lastOp' = "RequestFail" /\ alertMsg' = ""
    /\ UNCHANGED <<route, chatVars, fmtVars, gateVars, section, rsForm, requestSuccess,
                   isRequestLoading, nRequests, bkVars, payVars, wVars, envVars>>

\* POST /request/ rejected: there is no catch, only finally runs
RequestFail(r) ==
    /\ r \in requests
    /\ requests' = requests \ {r}
    /\ isRequestLoading' = FALSE
    /\ lastOp' = "RequestFail" /\ alertMsg' = ""
    /\ UNCHANGED <<route, chatVars, fmtVars, gateVars, section, rsForm, requestSuccess, nRequests,
                   bkVars, payVars, wVars, envVars>>

\* ---- booking panel: form and availability ----

\* variant: the email cell can be edited from any panel
SetEmail_AnyPanel(v) ==
    /\ ChatbotUI /\ v # email
    /\ email' = v
    /\ lastOp' = "" /\ alertMsg' = ""
    /\ UNCHANGED <<route, chatVars, fmtVars, gateVars, section, rsVars, roomType, checkIn, checkOut,
                   bookingSuccess, availability, paySummary, isBookingLoading,
                   isCheckingLoading, bookFlows, ckVars, payVars, wVars, envVars>>

SetEmail(v) ==
    /\ ChatbotUI /\ section = "booking" /\ v # email
    /\ email' = v
    /\ lastOp' = "" /\ alertMsg' = ""
    /\ UNCHANGED <<route, chatVars, fmtVars, gateVars, section, rsVars, roomType, checkIn, checkOut,
                   bookingSuccess, availability, paySummary, isBookingLoading,
                   isCheckingLoading, bookFlows, ckVars, payVars, wVars, envVars>>

SetRoomType(v) ==
    /\ ChatbotUI /\ section = "booking" /\ v # roomType
    /\ roomType' = v
    /\ lastOp' = "" /\ alertMsg' = ""
    /\ UNCHANGED <<route, chatVars, fmtVars, gateVars, section, rsVars, email, checkIn, checkOut,
                   bookingSuccess, availability, paySummary, isBookingLoading,
                   isCheckingLoading, bookFlows, ckVars, payVars, wVars, envVars>>

SetCheckIn(v) ==
    /\ ChatbotUI /\ section = "booking" /\ v # checkIn
    /\ checkIn' = v
    /\ lastOp' = "" /\ alertMsg' = ""
    /\ UNCHANGED <<route, chatVars, fmtVars, gateVars, section, rsVars, email, roomType, checkOut,
                   bookingSuccess, availability, paySummary, isBookingLoading,
                   isCheckingLoading, bookFlows, ckVars, payVars, wVars, envVars>>

SetCheckOut(v) ==
    /\ ChatbotUI /\ section = "booking" /\ v # checkOut
    /\ checkOut' = v
    /\ lastOp' = "" /\ alertMsg' = ""
    /\ UNCHANGED <<route, chatVars, fmtVars, gateVars, section, rsVars, email, roomType, checkIn,
                   bookingSuccess, availability, paySummary, isBookingLoading,
                   isCheckingLoading, bookFlows, ckVars, payVars, wVars, envVars>>

\* variant: only the check-in date is required
DatesValid_CheckInOnly(ci, co) == ci # ""

\* !checkIn || !checkOut is false
DatesValid(ci, co) == ci # "" /\ co # ""

Max(a, b) == IF a >= b THEN a ELSE b

\* Check Availability (disabled while isCheckingLoading), up to the await
checkRoomAvailability ==
    /\ ChatbotUI /\ section = "booking" /\ ~isCheckingLoading
    /\ lastOp' = "checkRoomAvailability"
    /\ IF ~DatesValid(checkIn, checkOut)
       THEN /\ alertMsg' = "Select both check-in & check-out dates."
            /\ UNCHANGED <<isCheckingLoading, checks, nChecks>>
       ELSE /\ Started < MaxStarts
            /\ isCheckingLoading' = TRUE
            /\ nChecks' = nChecks + 1
            /\ checks' = checks \cup {nChecks + 1}
            /\ alertMsg' = ""
    /\ UNCHANGED <<route, chatVars, fmtVars, gateVars, section, rsVars, bkForm, bookingSuccess,
                   availability, paySummary, isBookingLoading, bookFlows,
                   lastOkCheck, payVars, wVars, envVars>>

\* GET /booking/availability/ resolved; the snapshot returned for query q
\* is named q
AvailabilityOk(q) ==
    /\ q \in checks
    /\ checks' = checks \ {q}
    /\ availability' = q
    /\ isCheckingLoading' = FALSE
    /\ lastOkCheck' = Max(lastOkCheck, q)
    /\ lastOp' = "AvailabilityOk" /\ alertMsg' = ""
    /\ UNCHANGED <<route, chatVars, fmtVars, gateVars, section, rsVars, bkForm, bookingSuccess,
                   paySummary, isBookingLoading, bookFlows, nChecks,
                   payVars, wVars, envVars>>

AvailabilityFail(q) ==
    /\ q \in checks
    /\ checks' = checks \ {q}
    /\ isCheckingLoading' = FALSE
    /\ lastOp' = "AvailabilityFail" /\ alertMsg' = "Failed to fetch availability."
    /\ UNCHANGED <<route, chatVars, fmtVars, gateVars, section, rsVars, bkForm, bookingSuccess,
                   availability, paySummary, isBookingLoading, bookFlows,
                   nChecks, lastOkCheck, payVars, wVars, envVars>>

\* ---- booking panel: Book & Pay (handleBookingSubmit) ----

\* new window.Razorpay({order_id, notes: {booking_id}, handler}); rzp.open()
Checkout(ord, bk) == [order_id |-> ord, booking_id |-> bk]

\* Book & Pay (disabled while isBookingLoading), up to the first await
handleBookingSubmit ==
    /\ ChatbotUI /\ section = "booking" /\ ~isBookingLoading
    /\ lastOp' = "handleBookingSubmit"
    /\ IF ~BookingFormValid(email, checkIn, checkOut)
       THEN /\ alertMsg' = "Please fill all fields."
            /\ UNCHANGED <<isBookingLoading, bookFlows>>
       ELSE /\ Started < MaxStarts
            /\ LET f == Cardinality(StartedBookings) + 1 IN
               bookFlows' = [bookFlows EXCEPT ![f].pc = "booking"]
            /\ isBookingLoading' = TRUE
            /\ alertMsg' = ""
    /\ UNCHANGED <<route, chatVars, fmtVars, gateVars, section, rsVars, bkForm, bookingSuccess,
                   availability, paySummary, isCheckingLoading, ckVars,
                   payVars, wVars, envVars>>

\* POST /booking/ resolved with data.booking.id = id (0: no id in the
\* response); the backend names the booking of flow f by f
BookingOk(f, id) ==
    /\ f \in DOMAIN bookFlows /\ bookFlows[f].pc = "booking"
    /\ id \in {0, f}
    /\ lastOp' = IF id = 0 THEN "BookingNoId" ELSE "BookingOk"
    /\ IF HasBookingId(id)
       THEN /\ bookFlows' = [bookFlows EXCEPT ![f] = [@ EXCEPT !.pc = "order", !.booking = id]]
            /\ alertMsg' = ""
            /\ UNCHANGED isBookingLoading
       ELSE /\ bookFlows' = [bookFlows EXCEPT ![f].pc = "done"]
            /\ alertMsg' = BookingAlertText("", "Booking create failed")
            /\ isBookingLoading' = FALSE
    /\ UNCHANGED <<route, chatVars, fmtVars, gateVars, section, rsVars, bkForm, bookingSuccess,
                   availability, paySummary, isCheckingLoading, ckVars,
                   payVars, wVars, envVars>>

\* POST /booking/ rejected: catch, then finally
BookingFail(f, detail) ==
    /\ f \in DOMAIN bookFlows /\ bookFlows[f].pc = "booking"
    /\ bookFlows' = [bookFlows EXCEPT ![f].pc = "done"]
    /\ alertMsg' = BookingAlertText(detail, "Network Error")
    /\ isBookingLoading' = FALSE
    /\ lastOp' = "BookingFail"
    /\ UNCHANGED <<route, chatVars, fmtVars, gateVars, section, rsVars, bkForm, bookingSuccess,
                   availability, paySummary, isCheckingLoading, ckVars,
                   payVars, wVars, envVars>>

\* variant: the orchestrator posts the verify call itself after rzp.open()
OrderOk_VerifiesDirectly(f) ==
    /\ f \in DOMAIN bookFlows /\ bookFlows[f].pc = "order"
    /\ orderFor' = (f :> bookFlows[f].booking) @@ orderFor
    /\ paySummary' = [orderId |-> f, status |-> "none"]
    /\ IF razorpay
       THEN /\ bookFlows' = [bookFlows EXCEPT ![f] = [@ EXCEPT !.pc = "done", !.order = f]]
            /\ widgets' = widgets \cup {Checkout(f, bookFlows[f].booking)}
            /\ verifies' = verifies \cup {f}
            /\ isBookingLoading' = FALSE
       ELSE /\ bookFlows' = [bookFlows EXCEPT ![f] = [@ EXCEPT !.pc = "sdk", !.order = f]]
            /\ UNCHANGED <<widgets, verifies, isBookingLoading>>
    /\ lastOp' = "OrderOk" /\ alertMsg' = ""
    /\ UNCHANGED <<route, chatVars, fmtVars, gateVars, section, rsVars, bkForm, bookingSuccess,
                   availability, isCheckingLoading, ckVars, payVars,
                   paidOrders, dismissed, razorpay, verified>>

\* POST /booking/{id}/create-order resolved; the backend names the order of
\* flow f by f.  setPaySummary, then loadRazorpay(): with window.Razorpay
\* present the promise is already resolved and the widget opens in the same
\* task, otherwise the flow waits for the script
OrderOk(f) ==
    /\ f \in DOMAIN bookFlows /\ bookFlows[f].pc = "order"
    /\ orderFor' = (f :> bookFlows[f].booking) @@ orderFor
    /\ paySummary' = [orderId |-> f, status |-> "none"]
    /\ IF razorpay
       THEN /\ bookFlows' = [bookFlows EXCEPT ![f] = [@ EXCEPT !.pc = "done", !.order = f]]
            /\ widgets' = widgets \cup {Checkout(f, bookFlows[f].booking)}
            /\ isBookingLoading' = FALSE
       ELSE /\ bookFlows' = [bookFlows EXCEPT ![f] = [@ EXCEPT !.pc = "sdk", !.order = f]]
            /\ UNCHANGED <<widgets, isBookingLoading>>
    /\ lastOp' = "OrderOk" /\ alertMsg' = ""
    /\ UNCHANGED <<route, chatVars, fmtVars, gateVars, section, rsVars, bkForm, bookingSuccess,
                   availability, isCheckingLoading, ckVars, payVars,
                   verifies, paidOrders, dismissed, razorpay, verified>>

OrderFail(f, detail) ==
    /\ f \in DOMAIN bookFlows /\ bookFlows[f].pc = "order"
    /\ bookFlows' = [bookFlows EXCEPT ![f].pc = "done"]
    /\ alertMsg' = BookingAlertText(detail, "Network Error")
    /\ isBookingLoading' = FALSE
    /\ lastOp' = "OrderFail"
    /\ UNCHANGED <<route, chatVars, fmtVars, gateVars, section, rsVars, bkForm, bookingSuccess,
                   availability, paySummary, isCheckingLoading, ckVars,
                   payVars, wVars, envVars>>

\* the checkout script's onload fired; defines: it set window.Razorpay
SdkLoaded(f, defines) ==
    /\ f \in DOMAIN bookFlows /\ bookFlows[f].pc = "sdk"
    /\ razorpay' = (razorpay \/ defines)
    /\ bookFlows' = [bookFlows EXCEPT ![f].pc = "done"]
    /\ IF razorpay'
       THEN /\ widgets' = widgets \cup {Checkout(bookFlows[f].order, bookFlows[f].booking)}
            /\ alertMsg' = ""
       ELSE /\ alertMsg' = BookingAlertText("", "Razorpay SDK not available")
            /\ UNCHANGED widgets
    /\ isBookingLoading' = FALSE
    /\ lastOp' = "SdkLoaded"
    /\ UNCHANGED <<route, chatVars, fmtVars, gateVars, section, rsVars, bkForm, bookingSuccess,
                   availability, paySummary, isCheckingLoading, ckVars,
                   payVars, verifies, paidOrders, dismissed, orderFor, verified>>

\* variant: the catch only logs the error
SdkError_Silent(f) ==
    /\ f \in DOMAIN bookFlows /\ bookFlows[f].pc = "sdk"
    /\ bookFlows' = [bookFlows EXCEPT ![f].pc = "done"]
    /\ alertMsg' = ""
    /\ isBookingLoading' = FALSE
    /\ lastOp' = "SdkError"
    /\ UNCHANGED <<route, chatVars, fmtVars, gateVars, section, rsVars, bkForm,
                   bookingSuccess, availability, paySummary, isCheckingLoading,
                   ckVars, payVars, wVars, envVars>>

\* the checkout script's onerror fired
SdkError(f) ==
    /\ f \in DOMAIN bookFlows /\ bookFlows[f].pc = "sdk"
    /\ bookFlows' = [bookFlows EXCEPT ![f].pc = "done"]
    /\ alertMsg' = BookingAlertText("", "Failed to load Razorpay")
    /\ isBookingLoading' = FALSE
    /\ lastOp' = "SdkError"
    /\ UNCHANGED <<route, chatVars, fmtVars, gateVars, section, rsVars, bkForm, bookingSuccess,
                   availability, paySummary, isCheckingLoading, ckVars,
                   payVars, wVars, envVars>>

\* ---- checkout widget (host controlled) ----

\* the user completes the payment in widget w: the widget closes and calls
\* handler(resp), which posts resp.razorpay_order_id to the verify endpoint.
\* The provider accepts one successful payment per order.
CheckoutSuccess(w) ==
    /\ w \in widgets /\ w.order_id \notin paidOrders
    /\ widgets' = widgets \ {w}
    /\ paidOrders' = paidOrders \cup {w.order_id}
    /\ verifies' = verifies \cup {w.order_id}
    /\ lastOp' = "CheckoutSuccess" /\ alertMsg' = ""
    /\ UNCHANGED <<route, chatVars, fmtVars, gateVars, section, rsVars, bkVars, payVars,
                   dismissed, envVars>>

\* the user closes widget w without paying; only PaymentPage passes
\* modal.ondismiss
CheckoutDismiss(w) ==
    /\ w \in widgets
    /\ widgets' = widgets \ {w}
    /\ dismissed' = dismissed \cup {w.order_id}
    /\ lastOp' = "CheckoutDismiss"
    /\ alertMsg' = IF route = "/payment" THEN "Payment cancelled by user." ELSE ""
    /\ UNCHANGED <<route, chatVars, fmtVars, gateVars, section, rsVars, bkVars, payVars,
                   verifies, paidOrders, envVars>>

\* Chatbot's handler after POST /booking/payment/verify resolved
ChatVerifyOk(o) ==
    /\ route = "/" /\ o \in verifies
    /\ verifies' = verifies \ {o}
    /\ verified' = verified \cup {o}
    /\ paySummary' = MarkPaid(paySummary)
    /\ bookingSuccess' = "Payment successful! Your booking is confirmed."
    /\ email' = "" /\ roomType' = "Deluxe" /\ checkIn' = "" /\ checkOut' = ""
    /\ availability' = NULL
    /\ lastOp' = "VerifyOk" /\ alertMsg' = ""
    /\ UNCHANGED <<route, chatVars, fmtVars, gateVars, section, rsVars, isBookingLoading,
                   isCheckingLoading, bookFlows, ckVars, payVars, widgets,
                   paidOrders, dismissed, razorpay, orderFor>>

\* Chatbot's handler after the verify call rejected: the await throws inside
\* the handler, which has no try/catch
ChatVerifyFail(o) ==
    /\ route = "/" /\ o \in verifies
    /\ verifies' = verifies \ {o}
    /\ lastOp' = "VerifyFail" /\ alertMsg' = ""
    /\ UNCHANGED <<route, chatVars, fmtVars, gateVars, section, rsVars, bkVars, payVars, widgets,
                   paidOrders, dismissed, envVars>>

\* ---- PaymentPage ----

\* Booking ID field contents: 0 is "", Blank is a whitespace-only text,
\* 1..MaxBookingIds are booking ids
Blank == 0 - 1
BookingIdTexts == {Blank} \cup (0..MaxBookingIds)

\* bookingId.trim()
Trim(b) == IF b = Blank THEN 0 ELSE b

\* e?.response?.data?.detail || generic
PayAlertText(detail, generic) == IF detail # "" THEN detail ELSE generic

\* useEffect: loadRazorpay().then(() => setSdkReady(true)); defines: the
\* script set window.Razorpay
PaySdkLoaded(defines) ==
    /\ route = "/payment" /\ sdkLoad = "loading"
    /\ sdkLoad' = "ok"
    /\ sdkReady' = TRUE
    /\ razorpay' = defines
    /\ lastOp' = "PaySdkLoaded" /\ alertMsg' = ""
    /\ UNCHANGED <<route, chatVars, fmtVars, gateVars, section, rsVars, bkVars, bookingId, creating,
                   order, keyId, creates, nCreates, wVars, orderFor, verified>>

PaySdkError ==
    /\ route = "/payment" /\ sdkLoad = "loading"
    /\ sdkLoad' = "error"
    /\ lastOp' = "PaySdkError"
    /\ alertMsg' = "Could not load Razorpay. Check your network/adblock."
    /\ UNCHANGED <<route, chatVars, fmtVars, gateVars, section, rsVars, bkVars, bookingId, creating,
                   order, keyId, sdkReady, creates, nCreates, wVars, envVars>>

SetBookingId(v) ==
    /\ route = "/payment" /\ widgets = {} /\ v # bookingId
    /\ bookingId' = v
    /\ lastOp' = "" /\ alertMsg' = ""
    /\ UNCHANGED <<route, chatVars, fmtVars, gateVars, section, rsVars, bkVars, creating, order,
                   keyId, sdkReady, sdkLoad, creates, nCreates, wVars, envVars>>

\* Create Order (disabled while creating), up to the await
createOrder ==
    /\ route = "/payment" /\ widgets = {} /\ ~creating
    /\ lastOp' = "createOrder"
    /\ IF Trim(bookingId) = 0
       THEN /\ alertMsg' = "Enter a Booking ID first."
            /\ UNCHANGED <<creating, creates, nCreates>>
       ELSE /\ Started < MaxStarts
            /\ creating' = TRUE
            /\ nCreates' = nCreates + 1
            /\ creates' = creates \cup {[id |-> nCreates + 1, booking |-> bookingId]}
            /\ alertMsg' = ""
    /\ UNCHANGED <<route, chatVars, fmtVars, gateVars, section, rsVars, bkVars, bookingId, order,
                   keyId, sdkReady, sdkLoad, wVars, envVars>>

\* create-order resolved; the backend names the order of call c by c.id
CreateOrderOk(c) ==
    /\ route = "/payment" /\ c \in creates
    /\ creates' = creates \ {c}
    /\ orderFor' = (c.id :> c.booking) @@ orderFor
    /\ order' = [id |-> c.id]
    /\ keyId' = "rzp_test_x"
    /\ alertMsg' = "Order created"
    /\ creating' = FALSE
    /\ lastOp' = "CreateOrderOk"
    /\ UNCHANGED <<route, chatVars, fmtVars, gateVars, section, rsVars, bkVars, bookingId,
                   sdkReady, sdkLoad, nCreates, wVars, razorpay, verified>>

CreateOrderFail(c, detail) ==
    /\ route = "/payment" /\ c \in creates
    /\ creates' = creates \ {c}
    /\ alertMsg' = PayAlertText(detail, "Failed to create order. Check backend logs.")
    /\ creating' = FALSE
    /\ lastOp' = "CreateOrderFail"
    /\ UNCHANGED <<route, chatVars, fmtVars, gateVars, section, rsVars, bkVars, bookingId, order,
                   keyId, sdkReady, sdkLoad, nCreates, wVars, envVars>>

\* Pay Now (disabled while !order || !keyId || !sdkReady)
payNow ==
    /\ route = "/payment" /\ widgets = {}
    /\ order # NoOrder /\ keyId # "" /\ sdkReady
    /\ lastOp' = "payNow"
    /\ IF ~razorpay
       THEN /\ alertMsg' = "Razorpay SDK not loaded yet."
            /\ UNCHANGED widgets
       ELSE /\ widgets' = widgets \cup {Checkout(order.id, bookingId)}
            /\ alertMsg' = ""
    /\ UNCHANGED <<route, chatVars, fmtVars, gateVars, section, rsVars, bkVars, payVars,
                   verifies, paidOrders, dismissed, envVars>>

\* PaymentPage's handler after the verify call resolved
PayVerifyOk(o) ==
    /\ route = "/payment" /\ o \in verifies
    /\ verifies' = verifies \ {o}
    /\ verified' = verified \cup {o}
    /\ lastOp' = "VerifyOk"
    /\ alertMsg' = "Payment verified! Booking confirmed."
    /\ UNCHANGED <<route, chatVars, fmtVars, gateVars, section, rsVars, bkVars, payVars, widgets,
                   paidOrders, dismissed, razorpay, orderFor>>

\* PaymentPage's handler after the verify call rejected: its catch alerts
PayVerifyFail(o, detail) ==
    /\ route = "/payment" /\ o \in verifies
    /\ verifies' = verifies \ {o}
    /\ lastOp' = "VerifyFail"
    /\ alertMsg' = PayAlertText(detail, "Verification failed. See server logs for details.")
    /\ UNCHANGED <<route, chatVars, fmtVars, gateVars, section, rsVars, bkVars, payVars, widgets,
                   paidOrders, dismissed, envVars>>

\* ---- chat panel ----

\* currentInput.trim(): a whitespace-only text trims to ""
TrimText(t) == IF t \in {"", " "} THEN "" ELSE t

\* email || "guest"
ChatUserId(e) == IF e # "" THEN e ELSE "guest"

SetCurrentInput(v) ==
    /\ ChatbotUI /\ section = "faq" /\ v # currentInput
    /\ currentInput' = v
    /\ lastOp' = "" /\ alertMsg' = ""
    /\ UNCHANGED <<route, fmtVars, gateVars, section, rsVars, bkVars, payVars,
                   wVars, envVars, chatMessages, chats, nChats>>

\* the send button (never disabled), up to the await
handleChatSubmit ==
    /\ ChatbotUI /\ section = "faq"
    /\ lastOp' = "handleChatSubmit" /\ alertMsg' = ""
    /\ IF TrimText(currentInput) = ""
       THEN UNCHANGED chatVars
       ELSE /\ Started < MaxStarts
            /\ chatMessages' = Append(chatMessages,
                   [from |-> "user", text |-> currentInput, re |-> nChats + 1])
            /\ currentInput' = ""
            /\ nChats' = nChats + 1
            /\ chats' = chats \cup {[id |-> nChats + 1, user_id |-> ChatUserId(email)]}
    /\ UNCHANGED <<route, fmtVars, gateVars, section, rsVars, bkVars, payVars,
                   wVars, envVars>>

\* POST /chat/ resolved: the bot message is appended to the log as it is now
ChatOk(c) ==
    /\ c \in chats
    /\ chats' = chats \ {c}
    /\ chatMessages' = Append(chatMessages,
           [from |-> "bot", text |-> "response", re |-> c.id])
    /\ currentInput' = ""
    /\ lastOp' = "ChatOk" /\ alertMsg' = ""
    /\ UNCHANGED <<route, fmtVars, gateVars, section, rsVars, bkVars, payVars,
                   wVars, envVars, nChats>>

\* POST /chat/ rejected: the catch only logs to the console
ChatFail(c) ==
    /\ c \in chats
    /\ chats' = chats \ {c}
    /\ lastOp' = "ChatFail" /\ alertMsg' = ""
    /\ UNCHANGED <<route, fmtVars, gateVars, section, rsVars, bkVars, payVars,
                   wVars, envVars, chatMessages, currentInput, nChats>>

\* ---- amount line of the payment summary and of the PaymentPage order ----

Amounts    == (0..MaxAmount) \cup {400000}
Currencies == {"INR", "USD"}

DigitChars == <<"0", "1", "2", "3", "4", "5", "6", "7", "8", "9">>

RECURSIVE Digits(_)
\* the decimal digits of a natural number
Digits(n) ==
    IF n < 10 THEN <<DigitChars[n + 1]>>
    ELSE Append(Digits(n \div 10), DigitChars[(n % 10) + 1])

\* variant: the fraction is printed without left padding
ToFixed2_NoPad(num, den) ==
    LET n == (200 * num + den) \div (2 * den)
    IN  Digits(n \div 100) \o <<".">> \o Digits(n % 100)

\* (num / den).toFixed(2): n is the integer nearest to 100 * num / den (the
\* larger of two), its digits are left-padded with zeros to three and the
\* point is put before the last two
ToFixed2(num, den) ==
    LET n == (200 * num + den) \div (2 * den)
        m == Digits(n)
        z == IF Len(m) = 1 THEN <<"0", "0">> \o m
             ELSE IF Len(m) = 2 THEN <<"0">> \o m
             ELSE m
    IN  SubSeq(z, 1, Len(z) - 2) \o <<".">> \o SubSeq(z, Len(z) - 1, Len(z))

\* {(amount / 100).toFixed(2)} {currency}, the text after the rupee sign
AmountLine(a, cur) == ToFixed2(a, 100) \o <<" ", cur>>

\* the booking panel renders paySummary
RenderPaySummary ==
    /\ route = "/"
    /\ shown' = AmountLine(amount, currency)
    /\ lastOp' = "render" /\ alertMsg' = ""
    /\ UNCHANGED <<route, chatVars, amount, currency, gateVars, section, rsVars,
                   bkVars, payVars, wVars, envVars>>

\* the PaymentPage renders order
RenderOrder ==
    /\ route = "/payment"
    /\ shown' = AmountLine(amount, currency)
    /\ lastOp' = "render" /\ alertMsg' = ""
    /\ UNCHANGED <<route, chatVars, amount, currency, gateVars, section, rsVars,
                   bkVars, payVars, wVars, envVars>>

\* an order of any amount and currency is about to be rendered
InitFmt ==
    /\ InitProgram
    /\ amount \in Amounts /\ currency \in Currencies /\ shown = <<>>

NextFmt == RenderPaySummary \/ RenderOrder

SpecFmt == InitFmt /\ [][NextFmt]_vars

\* ---- specification ----

Next ==
    \/ PingOk
    \/ PingFail
    \/ ReloadAfterTimeout
    \/ \E s \in Sections : OpenSection(s)
    \/ BackToMenu
    \/ goHome
    \/ \E v \in Texts : SetRoomNumber(v)
    \/ \E v \in Texts : SetPhoneNumber(v)
    \/ \E v \in Texts : SetRequestText(v)
    \/ handleRequestSubmit
    \/ \E r \in 1..MaxStarts : RequestOk(r)
    \/ \E r \in 1..MaxStarts : RequestFail(r)
    \/ \E v \in Emails : SetEmail(v)
    \/ \E v \in RoomTypes : SetRoomType(v)
    \/ \E v \in CheckIns : SetCheckIn(v)
    \/ \E v \in CheckOuts : SetCheckOut(v)
    \/ checkRoomAvailability
    \/ \E q \in 1..MaxStarts : AvailabilityOk(q)
    \/ \E q \in 1..MaxStarts : AvailabilityFail(q)
    \/ handleBookingSubmit
    \/ \E f \in 1..MaxStarts, id \in 0..MaxStarts : BookingOk(f, id)
    \/ \E f \in 1..MaxStarts, d \in Details : BookingFail(f, d)
    \/ \E f \in 1..MaxStarts : OrderOk(f)
    \/ \E f \in 1..MaxStarts, d \in Details : OrderFail(f, d)
    \/ \E f \in 1..MaxStarts, b \in BOOLEAN : SdkLoaded(f, b)
    \/ \E f \in 1..MaxStarts : SdkError(f)
    \/ \E w \in widgets : CheckoutSuccess(w)
    \/ \E w \in widgets : CheckoutDismiss(w)
    \/ \E o \in verifies : ChatVerifyOk(o)
    \/ \E o \in verifies : ChatVerifyFail(o)
    \/ \E b \in BOOLEAN : PaySdkLoaded(b)
    \/ PaySdkError
    \/ \E v \in BookingIdTexts : SetBookingId(v)
    \/ createOrder
    \/ \E c \in creates : CreateOrderOk(c)
    \/ \E c \in creates, d \in Details : CreateOrderFail(c, d)
    \/ payNow
    \/ \E o \in verifies : PayVerifyOk(o)
    \/ \E o \in verifies, d \in Details : PayVerifyFail(o, d)
    \/ \E v \in ChatInputs : SetCurrentInput(v)
    \/ handleChatSubmit
    \/ \E c \in chats : ChatOk(c)
    \/ \E c \in chats : ChatFail(c)

Spec == Init /\ [][Next]_vars

\* ---- claims ----

Flows == DOMAIN bookFlows

\* C1: in every Book & Pay flow the create-order call is issued only by the
\* continuation of a booking-create response that carried an id, a checkout
\* widget is opened only for an order that create-order returned to a flow
\* still running, and a verify call is issued only by the success callback
\* of an open widget.
C1_StrictOrder ==
    [][route = "/" =>
        /\ \A f \in Flows :
              (bookFlows'[f].pc = "order" /\ bookFlows[f].pc # "order") =>
                  /\ bookFlows[f].pc = "booking"
                  /\ lastOp' = "BookingOk"
                  /\ bookFlows'[f].booking # 0
        /\ \A w \in widgets' \ widgets :
              /\ w.order_id \in DOMAIN orderFor'
              /\ lastOp' \in {"OrderOk", "SdkLoaded"}
              /\ \E f \in Flows : /\ bookFlows[f].pc \in {"order", "sdk"}
                                  /\ bookFlows'[f].order = w.order_id
        /\ \A o \in verifies' \ verifies :
              /\ lastOp' = "CheckoutSuccess"
              /\ \E w \in widgets : w.order_id = o
    ]_vars

\* a Book & Pay flow ran through all four steps
C1_Witness == route = "/" /\ verified # {}

\* C2: a displayed payment summary reads "paid" exactly when a verify call
\* for the displayed order has succeeded, and "pending" otherwise.
C2_StatusOfDisplayedOrder ==
    (route = "/" /\ paySummary # NoSummary) =>
        (DisplayStatus(paySummary) = "paid" <=> paySummary.orderId \in verified)

\* C3: every open checkout widget carries an order that the backend created
\* for the booking id passed as notes.booking_id.
C3_OrderPairedWithBooking ==
    \A w \in widgets :
        w.order_id \in DOMAIN orderFor /\ orderFor[w.order_id] = w.booking_id

\* C4: the availability display shows the snapshot of the most recently
\* started query among those that succeeded.
C4_LatestAvailability ==
    availability # NULL => availability = lastOkCheck

\* C5: at most one request of each kind is in flight.
C5_AtMostOneInFlight ==
    /\ Cardinality(requests) <= 1
    /\ Cardinality(BookingsInFlight) <= 1
    /\ Cardinality(checks) <= 1
    /\ Cardinality(creates) <= 1

\* C6: a Book & Pay click with email, check_in or check_out empty sends no
\* request, opens no widget and only raises the validation alert.
C6_NoCallOnEmptyField ==
    [][(lastOp' = "handleBookingSubmit"
            /\ (email = "" \/ checkIn = "" \/ checkOut = "")) =>
        /\ bookFlows' = bookFlows
        /\ verifies' = verifies
        /\ widgets' = widgets
        /\ orderFor' = orderFor
        /\ isBookingLoading' = isBookingLoading
        /\ alertMsg' = "Please fill all fields."
    ]_vars

\* Book & Pay was clicked with the email filled in and a date missing
C6_Witness ==
    /\ lastOp = "handleBookingSubmit" /\ alertMsg = "Please fill all fields."
    /\ email # "" /\ (checkIn = "" \/ checkOut = "")

\* C7: a booking-create response without id ends the flow with the failure
\* alert: no create-order call, no payment summary, no widget, and the flow
\* never holds an order.
C7_FlowWithoutId ==
    \A f \in Flows :
        bookFlows[f].booking = 0 =>
            /\ bookFlows[f].pc \in {"idle", "booking", "done"}
            /\ bookFlows[f].order = 0

C7_MissingIdAborts ==
    /\ []C7_FlowWithoutId
    /\ [][lastOp' = "BookingNoId" =>
            /\ alertMsg' = "Booking create failed"
            /\ \A f \in Flows :
                  bookFlows'[f].pc # bookFlows[f].pc => bookFlows'[f].pc = "done"
            /\ paySummary' = paySummary
            /\ bookingSuccess' = bookingSuccess
            /\ widgets' = widgets
            /\ orderFor' = orderFor
       ]_vars

\* the response without id was handled
C7_Witness == lastOp = "BookingNoId" /\ \E f \in Flows : bookFlows[f].pc = "done"

\* C8: a failed verify call raises an alert, leaves the payment summary, the
\* confirmation message and the form as they were, and issues no verify call.
C8_VerifyFailureSurfaced ==
    [][lastOp' = "VerifyFail" =>
        /\ alertMsg' # ""
        /\ paySummary' = paySummary
        /\ bookingSuccess' = bookingSuccess
        /\ bkForm' = bkForm
        /\ verifies' \subseteq verifies
    ]_vars

\* C9: in the booking panel an order whose widget was dismissed is never
\* paid or verified, and while it is the displayed order its status reads
\* "pending".
C9_DismissedStaysPending ==
    route = "/" =>
        \A o \in dismissed :
            /\ o \notin paidOrders
            /\ o \notin verifies \cup verified
            /\ (paySummary # NoSummary /\ paySummary.orderId = o) =>
                   DisplayStatus(paySummary) = "pending"

\* C10: a loading flag is false whenever no call of its handler is in
\* flight, and false right after any call of its handler completed.
C10_NoCallNoFlag ==
    /\ requests = {} => ~isRequestLoading
    /\ BookingsInFlight = {} => ~isBookingLoading
    /\ checks = {} => ~isCheckingLoading
    /\ creates = {} => ~creating

C10_FlagsReset ==
    /\ []C10_NoCallNoFlag
    /\ [][/\ (requests' # requests /\ requests' \subseteq requests) => ~isRequestLoading'
          /\ (\E f \in Flows : bookFlows[f].pc \in InFlightPc /\ bookFlows'[f].pc = "done")
                 => ~isBookingLoading'
          /\ (checks' # checks /\ checks' \subseteq checks) => ~isCheckingLoading'
          /\ (creates' # creates /\ creates' \subseteq creates) => ~creating'
       ]_vars

\* a Book & Pay flow ended on the SDK-load failure path
C10_Witness == lastOp = "SdkError" /\ BookingsInFlight = {} /\ ~isBookingLoading

\* C11: entering the booking panel from the menu after a payment was
\* verified shows email empty, room type "Deluxe", both dates empty and no
\* availability.
C11_ReentryShowsDefaults ==
    [][(route = "/" /\ section = NoSection /\ section' = "booking" /\ verified # {}) =>
        /\ email' = "" /\ roomType' = "Deluxe"
        /\ checkIn' = "" /\ checkOut' = ""
        /\ availability' = NULL
    ]_vars

\* C12: every failed backend call raises an alert.
FailureOps == {"ChatFail", "RequestFail", "BookingFail", "OrderFail",
               "VerifyFail", "AvailabilityFail", "CreateOrderFail"}

C12_FailuresAlert ==
    [][lastOp' \in FailureOps => alertMsg' # ""]_vars

\* C13: when the checkout script fails to load or leaves window.Razorpay
\* undefined, the step raises an alert and opens no widget and issues no
\* verify call; a widget is only ever opened with the SDK present, and none
\* exists on a PaymentPage whose script failed.  The payment summary that
\* Book & Pay set before loading the script is left as it was.
SdkFailureStep ==
    \/ lastOp' \in {"SdkError", "PaySdkError"}
    \/ lastOp' = "SdkLoaded" /\ ~razorpay'
    \/ lastOp' = "payNow" /\ ~razorpay

C13_NoCheckoutWithoutSdk ==
    /\ (sdkLoad = "error" => widgets = {} /\ verifies = {} /\ paidOrders = {})
    /\ (widgets # {} => razorpay)

C13_AbortStep ==
    /\ SdkFailureStep =>
          /\ alertMsg' # ""
          /\ widgets' = widgets
          /\ verifies' = verifies
          /\ paySummary' = paySummary
    /\ widgets' \ widgets # {} => razorpay'

C13_SdkFailureAborts == []C13_NoCheckoutWithoutSdk /\ [][C13_AbortStep]_vars

\* a Book & Pay flow was aborted by the script's load error, its order
\* still displayed as pending
C13_Witness ==
    /\ lastOp = "SdkError" /\ alertMsg = "Failed to load Razorpay"
    /\ widgets = {} /\ paySummary # NoSummary
    /\ DisplayStatus(paySummary) = "pending"

\* C13 as stated: in addition, the aborted flow leaves no order displayed
\* as awaiting payment.
C13_AbortLeavesNoPendingOrder ==
    [][/\ C13_AbortStep
       /\ (route = "/" /\ SdkFailureStep) =>
              ~(paySummary' # NoSummary /\ DisplayStatus(paySummary') = "pending")
    ]_vars

\* C14: a submission rejected by validation raises the alert and changes
\* no state cell, call in flight or backend state.
progVars == <<route, gateVars, section, rsVars, bkVars, payVars, wVars, envVars,
              chatVars, fmtVars>>

RejectedSubmission ==
    \/ lastOp' = "handleRequestSubmit"
          /\ (roomNumber = "" \/ phoneNumber = "" \/ requestText = "")
    \/ lastOp' = "checkRoomAvailability" /\ (checkIn = "" \/ checkOut = "")
    \/ lastOp' = "handleBookingSubmit"
          /\ (email = "" \/ checkIn = "" \/ checkOut = "")
    \/ lastOp' = "createOrder" /\ bookingId \in {0, Blank}

C14_ValidationChangesNothing ==
    [][RejectedSubmission => (progVars' = progVars /\ alertMsg' # "")]_vars

\* Create Order was rejected for a whitespace-only booking id
C14_Witness ==
    lastOp = "createOrder" /\ alertMsg = "Enter a Booking ID first." /\ bookingId = Blank

\* C15: the rendered amount is amount div 100, a point, amount mod 100 as
\* two digits, a space and the currency; 400000 INR reads 4000.00 INR.
Pad2(k) == <<DigitChars[(k \div 10) + 1], DigitChars[(k % 10) + 1]>>

C15_AmountShown ==
    shown # <<>> =>
        /\ shown = Digits(amount \div 100) \o <<".">> \o Pad2(amount % 100)
                       \o <<" ", currency>>
        /\ (amount = 400000 /\ currency = "INR") =>
               shown = <<"4", "0", "0", "0", ".", "0", "0", " ", "INR">>

\* the example order was rendered, and one with a one-digit fraction
C15_Witness ==
    shown # <<>> /\ (amount = 400000 \/ amount % 100 = 5) /\ amount # 5

\* C16: until the ping has succeeded only the loading screen is shown and no
\* chat, request, booking or availability call has been issued; after a
\* failed ping the only thing that happens is the reload, which probes again.
C16_Gated ==
    (route = "/" /\ ping # "ok") =>
        /\ loading /\ section = NoSection
        /\ nChats = 0 /\ nRequests = 0 /\ nChecks = 0 /\ StartedBookings = {}
        /\ chats = {} /\ requests = {} /\ checks = {}
        /\ chatMessages = <<Greeting>>

C16_FailedPingReloads ==
    (route = "/" /\ ping = "failed") =>
        (lastOp' = "Reload" /\ ping' = "inflight" /\ loading')

C16_GatedOnPing == []C16_Gated /\ [][C16_FailedPingReloads]_vars

\* the probe failed and the reload started it again: the UI is still gated
C16_Witness == route = "/" /\ lastOp = "Reload" /\ ping = "inflight" /\ loading

\* C17: every step leaves the chat log a prefix of the log after it.
IsPrefix(p, q) == Len(p) <= Len(q) /\ SubSeq(q, 1, Len(p)) = p

C17_ChatLogAppendOnly == [][IsPrefix(chatMessages, chatMessages')]_vars

\* Back was pressed in a panel after a chat exchange, and the log kept it
C17_Witness == lastOp = "goHome" /\ Len(chatMessages) = 3 /\ section = NoSection

\* C18: every bot response immediately follows the user message it answers,
\* and responses are in the order of their requests.
C18_PairsInOrder ==
    \A i \in 1..Len(chatMessages) :
        (chatMessages[i].from = "bot" /\ chatMessages[i].re # 0) =>
            /\ i > 1
            /\ chatMessages[i - 1].from = "user"
            /\ chatMessages[i - 1].re = chatMessages[i].re
            /\ \A j \in 1..(i - 1) :
                   chatMessages[j].from = "bot" => chatMessages[j].re < chatMessages[i].re

\* C19: at the menu, once paySummary and bookingSuccess are cleared they stay
\* cleared (Book & Pay cannot be clicked there).
C19_StaysCleared ==
    [][(route = "/" /\ section = NoSection /\ paySummary = NoSummary
           /\ bookingSuccess = "") =>
       (paySummary' = NoSummary /\ bookingSuccess' = "")]_vars

\* C20: a failed room-service submission keeps the inputs and leaves no
\* success flag displayed; the flag is raised only by a successful response.
C20_FlagOfLatestSubmission ==
    [][/\ lastOp' = "RequestFail" => (~requestSuccess' /\ rsForm' = rsForm)
       /\ (requestSuccess' /\ ~requestSuccess) => lastOp' = "RequestOk"]_vars

\* C21: whenever the displayed section is not the booking panel the email is
\* empty, and every chat call in flight was sent with user_id "guest".
C21_EmailStaysInBooking ==
    /\ section # "booking" => email = ""
    /\ \A c \in chats : c.user_id = "guest"

\* a chat was sent after a Book & Pay with a typed email had been started
C21_Witness ==
    lastOp = "handleChatSubmit" /\ chats # {} /\ StartedBookings # {} /\ section = "faq"

====
